---- MODULE Spec2Model ----
(***************************************************************************)
(* A model of xxbf: the parser (src/src/parser.rs), the soup builder       *)
(* (src/src/astsoup.rs), the two interpreters with their memory            *)
(* (src/src/vm.rs) and the C code generator (src/src/ctranspiler.rs).      *)
(*                                                                         *)
(* Conventions                                                             *)
(*  - a source text is a sequence of characters, each a one-element        *)
(*    string; "U+00E9" stands for a character of two UTF-8 bytes;          *)
(*  - Option<T> is a sequence: <<>> is None and <<v>> is Some(v);          *)
(*  - a usize that holds the bits of a negative isize (the result of       *)
(*    `(.. as isize + d) as usize` below zero) is kept as that negative    *)
(*    integer: it stands for the value 2^64 + it, which is larger than     *)
(*    the length of any Vec.                                               *)
(***************************************************************************)
EXTENDS Integers, Sequences, FiniteSets, TLC

VARIABLES
    src_code,     \* parse_instr_seq: the source text
    scan_i,       \* parse_instr_seq: number of characters the for loop consumed
    scope_stack,  \* parse_instr_seq: ScopeStack
    errors,       \* parse_instr_seq: Vec<ParsingError>
    ppc,          \* parse_instr_seq: position ("scan", "drain", "return", "done", "panicked")
    result,       \* parse_instr_seq: the returned Result
    input,        \* run_raw, run_soup: the argument input: Option<Vec<u8>>
    soup_prog,    \* the Block sequence soupify made of the parsed program
    engine,       \* the interpreter that runs: "raw", "soup", or "none"
    m,            \* run_raw, run_soup: the VmMem m
    instr_stack,  \* run_raw, run_soup: instr_stack, its top last
    vpc,          \* the run: "idle", "run", "returned", "panicked"
    ret,          \* the Vec<u8> the run returned: <<>> before, <<output>> after
    stdout,       \* what the run printed on the standard output
    stdin_blocked,\* whether the run has read the standard input
    n_inputs,     \* number of Comma / Input instructions executed, up to InputCountCap
    first_run,    \* the outcome of the interpreter that ran first: <<>> or <<outcome>>
    last_op,      \* SpecMem: the last call of VmMem::get or VmMem::set, and what it gave
    written,      \* SpecMem: for each index ever set, the value last set there
    transpiled    \* SpecCompile: what the code generator returned: <<>> before, <<r>> after

pvars == <<src_code, scan_i, scope_stack, errors, ppc, result>>

vmvars == <<input, soup_prog, engine, m, instr_stack, vpc, ret, stdout,
            stdin_blocked, n_inputs, first_run, last_op, written, transpiled>>

vars == <<src_code, scan_i, scope_stack, errors, ppc, result,
          input, soup_prog, engine, m, instr_stack, vpc, ret, stdout,
          stdin_blocked, n_inputs, first_run, last_op, written, transpiled>>

----------------------------------------------------------------------------
(* Bounds *)

\* SpecParse: the longest source text
MaxSrcLen == 4

\* Spec: the longest source text taken from all texts (Programs adds some)
MaxProgLen == 3

\* Spec: the longest input buffer
MaxInputLen == 2

\* Spec: the highest tape index a run may reach before it is cut
MaxCell == 3

\* Spec: the most bytes a run may output before it is cut
MaxOutput == 3

\* SpecMem: the highest index of a get or set
MaxIndex == 3

\* SpecCompile: the longest source text taken from all texts (CompilePrograms adds some)
MaxCompileLen == 4

----------------------------------------------------------------------------
(* Source characters *)

InstrChars == {"+", "-", "<", ">", ".", ","}

BracketChars == {"[", "]"}

SignificantChars == InstrChars \cup BracketChars

CommentChars == {"a", "U+00E9"}

Alphabet == SignificantChars \cup CommentChars

\* char::len_utf8, as str::char_indices advances by it
len_utf8(c) == IF c = "U+00E9" THEN 2 ELSE 1

\* the sum of the lengths of the characters, the text taken by halves
RECURSIVE ByteLen(_)
ByteLen(s) ==
    IF s = <<>> THEN 0
    ELSE IF Len(s) = 1 THEN len_utf8(s[1])
    ELSE LET mid == Len(s) \div 2
         IN  ByteLen(SubSeq(s, 1, mid)) + ByteLen(SubSeq(s, mid + 1, Len(s)))

\* the byte offset char_indices yields with the i-th character (i from 1)
char_index(s, i) == ByteLen(SubSeq(s, 1, i - 1))

\* TRUE; TLC hands an argument on unevaluated, and comparing it evaluates
\* it, which keeps the nesting of the pending evaluations shallow
Evaluated(x) == x = x

SeqsUpTo(S, n) == UNION {[1..k -> S] : k \in 0..n}

----------------------------------------------------------------------------
(* Raw AST *)

Prim(name) == [op |-> name, body |-> <<>>]

BracketLoop(body) == [op |-> "BracketLoop", body |-> body]

RawOfChar(c) ==
    CASE c = "+" -> Prim("Plus")
      [] c = "-" -> Prim("Minus")
      [] c = "<" -> Prim("Left")
      [] c = ">" -> Prim("Right")
      [] c = "." -> Prim("Dot")
      [] c = "," -> Prim("Comma")

----------------------------------------------------------------------------
(* Parser *)

Scope(opening, instrs) == [opening_bracket_pos |-> opening, instr_seq |-> instrs]

RootScope == Scope(<<>>, <<>>)

UnmatchedOpeningBracket(p) == [kind |-> "UnmatchedOpeningBracket", pos |-> p]

UnmatchedClosingBracket(p) == [kind |-> "UnmatchedClosingBracket", pos |-> p]

\* Vec::pop / Vec::last_mut on the scope stack
StackTop(ss) == ss[Len(ss)]

StackPop(ss) == SubSeq(ss, 1, Len(ss) - 1)

\* a push that puts the instruction before the ones the scope holds
TopInstrSeqPushFront(ss, instr) ==
    [ss EXCEPT ![Len(ss)].instr_seq = <<instr>> \o @]

\* scope_stack.top_instr_seq().push(instr)
top_instr_seq_push(ss, instr) ==
    [ss EXCEPT ![Len(ss)].instr_seq = Append(@, instr)]

\* Vec::remove(index), index counted from 0: the later elements shift down
VecRemove(ss, index) == SubSeq(ss, 1, index) \o SubSeq(ss, index + 2, Len(ss))

\* the index the end-of-input loop removes: a pop would remove the last one
DrainIndexPop(ss) == Len(ss) - 1

\* the index of the root scope, should the end-of-input loop remove that one
DrainIndexRoot(ss) == 0

\* scope_stack.0.remove(1)
DrainIndex(ss) == 1

\* The state the for loop works on, and the arms of its match
PState(ss, errs, ok) == [scope_stack |-> ss, errors |-> errs, ok |-> ok]

ArmInstr(st, c) ==
    IF st.scope_stack = <<>>
    THEN [st EXCEPT !.ok = FALSE]    \* last_mut().unwrap() on an empty stack
    ELSE [st EXCEPT !.scope_stack = top_instr_seq_push(@, RawOfChar(c))]

ArmOpen(st, pos) ==
    [st EXCEPT !.scope_stack = Append(@, Scope(<<pos>>, <<>>))]

\* the ']' arm popping whenever a scope is there, the root included
ArmCloseOffByOne(st, pos) ==
    IF Len(st.scope_stack) >= 1
    THEN LET poped_instr_seq == StackTop(st.scope_stack).instr_seq
             rest == StackPop(st.scope_stack)
         IN  IF rest = <<>>
             THEN [st EXCEPT !.scope_stack = rest, !.ok = FALSE]
             ELSE [st EXCEPT !.scope_stack =
                      top_instr_seq_push(rest, BracketLoop(poped_instr_seq))]
    ELSE [st EXCEPT !.errors = Append(@, UnmatchedClosingBracket(pos))]

ArmClose(st, pos) ==
    IF Len(st.scope_stack) >= 2
    THEN LET poped_instr_seq == StackTop(st.scope_stack).instr_seq
         IN  [st EXCEPT !.scope_stack =
                 top_instr_seq_push(StackPop(@), BracketLoop(poped_instr_seq))]
    ELSE [st EXCEPT !.errors = Append(@, UnmatchedClosingBracket(pos))]

\* the `_` arm taking a comment character for an instruction
ArmOtherAsPlus(st) == ArmInstr(st, "+")

\* _ => ()
ArmOther(st) == st

MatchChar(st, c, pos) ==
    CASE c \in InstrChars -> ArmInstr(st, c)
      [] c = "["          -> ArmOpen(st, pos)
      [] c = "]"          -> ArmClose(st, pos)
      [] OTHER            -> ArmOther(st)

\* the end-of-input loop dropping the open scope without recording it
DrainOneSilent(st) ==
    [st EXCEPT !.scope_stack = VecRemove(@, DrainIndex(@))]

\* One turn of the while loop that closes the scopes still open
DrainOne(st) ==
    LET index   == DrainIndex(st.scope_stack)
        removed == st.scope_stack[index + 1]
    IN  IF removed.opening_bracket_pos = <<>>
        THEN [st EXCEPT !.ok = FALSE]      \* unwrap() of None
        ELSE [scope_stack |-> VecRemove(st.scope_stack, index),
              errors      |-> Append(st.errors,
                                 UnmatchedOpeningBracket(removed.opening_bracket_pos[1])),
              ok          |-> st.ok]

Pending == [tag |-> "Pending", instr_seq |-> <<>>, errors |-> <<>>]

Ok(instrs) == [tag |-> "Ok", instr_seq |-> instrs, errors |-> <<>>]

Err(errs) == [tag |-> "Err", instr_seq |-> <<>>, errors |-> errs]

Panicked == [tag |-> "Panicked", instr_seq |-> <<>>, errors |-> <<>>]

\* The last statement of parse_instr_seq
ReturnValue(st) ==
    IF st.errors = <<>>
    THEN IF Len(st.scope_stack) = 1
         THEN Ok(StackTop(st.scope_stack).instr_seq)
         ELSE Panicked
    ELSE Err(st.errors)

\* parse_instr_seq as a function of the source text
RECURSIVE ScanFrom(_, _, _)
ScanFrom(st, s, i) ==
    IF i > Len(s) \/ ~st.ok THEN st
    ELSE ScanFrom(MatchChar(st, s[i], char_index(s, i)), s, i + 1)

RECURSIVE DrainAll(_)
DrainAll(st) ==
    IF Len(st.scope_stack) >= 2 /\ st.ok THEN DrainAll(DrainOne(st)) ELSE st

parse_instr_seq(s) ==
    LET scanned == ScanFrom(PState(<<RootScope>>, <<>>, TRUE), s, 1)
        drained == DrainAll(scanned)
    IN  IF ~drained.ok \/ drained.scope_stack = <<>> THEN Panicked
        ELSE ReturnValue(drained)

----------------------------------------------------------------------------
(* Soup builder *)

\* HashMap<isize, isize>: a set of <<key, value>> pairs, one pair per key
MapKeys(map) == {e[1] : e \in map}

MapHas(map, key) == key \in MapKeys(map)

MapGet(map, key) == (CHOOSE e \in map : e[1] = key)[2]

\* *map.entry(key).or_insert(0) += by
MapEntryAdd(map, key, by) ==
    IF MapHas(map, key)
    THEN (map \ {<<key, MapGet(map, key)>>}) \cup {<<key, MapGet(map, key) + by>>}
    ELSE map \cup {<<key, by>>}

Block(name, deltas, hd, body) ==
    [op |-> name, cell_deltas |-> deltas, head_delta |-> hd, body |-> body]

Soup(deltas, hd) == Block("Soup", deltas, hd, <<>>)

Output == Block("Output", {}, 0, <<>>)

Input == Block("Input", {}, 0, <<>>)

MultFixedLoop(deltas) == Block("MultFixedLoop", deltas, 0, <<>>)

SoupFixedLoop(deltas) == Block("SoupFixedLoop", deltas, 0, <<>>)

SoupMovingLoop(deltas, hd) == Block("SoupMovingLoop", deltas, hd, <<>>)

Loop(body) == Block("Loop", {}, 0, body)

Last(seq) == seq[Len(seq)]

ButLast(seq) == SubSeq(seq, 1, Len(seq) - 1)

\* top_must_be_soup that pushes a new Soup whatever the last block is
TopAlwaysNewSoup(blocks) == Append(blocks, Soup({}, 0))

top_must_be_soup(blocks) ==
    IF blocks # <<>> /\ Last(blocks).op = "Soup"
    THEN blocks
    ELSE Append(blocks, Soup({}, 0))

\* the arm with Plus and Minus counted at the offset 0 wherever the head is
SoupAbsorbAtHead(soup, raw_instr) ==
    CASE raw_instr.op = "Plus"  -> [soup EXCEPT !.cell_deltas = MapEntryAdd(@, 0, 1)]
      [] raw_instr.op = "Minus" -> [soup EXCEPT !.cell_deltas = MapEntryAdd(@, 0, -1)]
      [] raw_instr.op = "Left"  -> [soup EXCEPT !.head_delta = @ - 1]
      [] raw_instr.op = "Right" -> [soup EXCEPT !.head_delta = @ + 1]

\* the Plus | Minus | Left | Right arm, on the Soup that is last
SoupAbsorb(soup, raw_instr) ==
    CASE raw_instr.op = "Plus"  ->
            [soup EXCEPT !.cell_deltas = MapEntryAdd(@, soup.head_delta, 1)]
      [] raw_instr.op = "Minus" ->
            [soup EXCEPT !.cell_deltas = MapEntryAdd(@, soup.head_delta, -1)]
      [] raw_instr.op = "Left"  -> [soup EXCEPT !.head_delta = @ - 1]
      [] raw_instr.op = "Right" -> [soup EXCEPT !.head_delta = @ + 1]

\* the BracketLoop arm with `unwrap_or(&-1)`: no entry at 0 counts as -1
ClassifyLoopAbsentIsMinusOne(body) ==
    IF Len(body) = 1 /\ body[1].op = "Soup"
    THEN LET cell_deltas == body[1].cell_deltas
             head_delta  == body[1].head_delta
             at_head     == IF MapHas(cell_deltas, 0) THEN MapGet(cell_deltas, 0) ELSE -1
         IN  IF head_delta = 0 /\ at_head = -1 THEN MultFixedLoop(cell_deltas)
             ELSE IF head_delta = 0 THEN SoupFixedLoop(cell_deltas)
             ELSE SoupMovingLoop(cell_deltas, head_delta)
    ELSE Loop(body)

\* the BracketLoop arm that tests `head_delta != 0` where the code tests `== 0`
ClassifyLoopSwapped(body) ==
    IF Len(body) = 1 /\ body[1].op = "Soup"
    THEN LET cell_deltas == body[1].cell_deltas
             head_delta  == body[1].head_delta
             at_head     == IF MapHas(cell_deltas, 0) THEN MapGet(cell_deltas, 0) ELSE 0
         IN  IF head_delta = 0 /\ at_head = -1 THEN MultFixedLoop(cell_deltas)
             ELSE IF head_delta # 0 THEN SoupFixedLoop(cell_deltas)
             ELSE SoupMovingLoop(cell_deltas, head_delta)
    ELSE Loop(body)

\* the BracketLoop arm, given the soupified body
ClassifyLoop(body) ==
    IF Len(body) = 1 /\ body[1].op = "Soup"
    THEN LET cell_deltas == body[1].cell_deltas
             head_delta  == body[1].head_delta
             at_head     == IF MapHas(cell_deltas, 0) THEN MapGet(cell_deltas, 0) ELSE 0
         IN  IF head_delta = 0 /\ at_head = -1 THEN MultFixedLoop(cell_deltas)
             ELSE IF head_delta = 0 THEN SoupFixedLoop(cell_deltas)
             ELSE SoupMovingLoop(cell_deltas, head_delta)
    ELSE Loop(body)

RECURSIVE soupify(_)
\* the turn with an Output arm that pushes nothing
SoupifyInstrDotSilent(blocks, raw_instr) ==
    CASE raw_instr.op \in {"Plus", "Minus", "Left", "Right"} ->
            LET with_soup == top_must_be_soup(blocks)
            IN  Append(ButLast(with_soup), SoupAbsorb(Last(with_soup), raw_instr))
      [] raw_instr.op = "Dot"   -> blocks
      [] raw_instr.op = "Comma" -> Append(blocks, Input)
      [] raw_instr.op = "BracketLoop" ->
            Append(blocks, ClassifyLoop(soupify(raw_instr.body)))

\* one turn of `for raw_instr in raw_prog { match raw_instr { .. } }`
SoupifyInstr(blocks, raw_instr) ==
    CASE raw_instr.op \in {"Plus", "Minus", "Left", "Right"} ->
            LET with_soup == top_must_be_soup(blocks)
            IN  Append(ButLast(with_soup), SoupAbsorb(Last(with_soup), raw_instr))
      [] raw_instr.op = "Dot"   -> Append(blocks, Output)
      [] raw_instr.op = "Comma" -> Append(blocks, Input)
      [] raw_instr.op = "BracketLoop" ->
            Append(blocks, ClassifyLoop(soupify(raw_instr.body)))

\* the turns for raw_prog[a..b], in their order; the range is taken by halves
RECURSIVE SoupifyRange(_, _, _, _)
SoupifyRange(blocks, raw_prog, a, b) ==
    CASE a > b \/ ~Evaluated(blocks) -> blocks
      [] a = b /\ Evaluated(blocks) -> SoupifyInstr(blocks, raw_prog[a])
      [] a < b /\ Evaluated(blocks) ->
            SoupifyRange(SoupifyRange(blocks, raw_prog, a, (a + b) \div 2),
                         raw_prog, (a + b) \div 2 + 1, b)

soupify(raw_prog) == SoupifyRange(<<>>, raw_prog, 1, Len(raw_prog))

----------------------------------------------------------------------------
(* The memory of the interpreters *)

Reverse(seq) == [k \in 1..Len(seq) |-> seq[Len(seq) + 1 - k]]

Zeros(n) == [k \in 1..n |-> 0]

\* VmMem::new that keeps the input in its order, so that pop takes its end
VmMemNewNoRev(inp) ==
    [cell_vec |-> <<>>,
     head |-> 0,
     interact_with_user |-> inp = <<>>,
     input_stack |-> IF inp = <<>> THEN <<>> ELSE Append(inp[1], 0),
     output_stack |-> <<>>]

VmMemNew(inp) ==
    [cell_vec |-> <<>>,
     head |-> 0,
     interact_with_user |-> inp = <<>>,
     input_stack |-> IF inp = <<>> THEN <<>> ELSE Reverse(Append(inp[1], 0)),
     output_stack |-> <<>>]

\* an index that holds the bits of a negative isize is beyond any length
get(mem, index) ==
    IF 0 <= index /\ index < Len(mem.cell_vec) THEN mem.cell_vec[index + 1] ELSE 0

\* VmMem::set that grows the storage by one cell only
SetGrowOne(mem, index, value) ==
    LET len   == Len(mem.cell_vec)
        grown == IF len <= index THEN Append(mem.cell_vec, 0) ELSE mem.cell_vec
    IN  [mem EXCEPT !.cell_vec =
            IF index < Len(grown) THEN [grown EXCEPT ![index + 1] = value] ELSE grown]

\* for an index of 0 or more; see SetPanics for the others
set(mem, index, value) ==
    LET len   == Len(mem.cell_vec)
        grown == IF len <= index
                 THEN mem.cell_vec \o Zeros(index + 1 - len)
                 ELSE mem.cell_vec
    IN  [mem EXCEPT !.cell_vec = [grown EXCEPT ![index + 1] = value]]

\* set at an index that holds the bits of a negative isize: `index + 1`
\* overflows, or the extend asks for more than isize::MAX bytes, or the
\* indexing is out of bounds; each of them panics
SetPanics(index) == index < 0

\* u8::wrapping_add, u8::wrapping_sub
wrapping_add(a, b) == (a + b) % 256

wrapping_sub(a, b) == (a - b) % 256

\* `(x as usize % 256) as u8` that clamps what is out of the range of u8
ClampToU8(x) == IF x < 0 THEN 0 ELSE IF x > 255 THEN 255 ELSE x

\* `(x as usize % 256) as u8` for an isize x: `as usize` adds 2^64 to a
\* negative x, and 256 divides 2^64, so the remainder is that of x in 0..255
as_usize_rem_256(x) == x % 256

\* output_char_value: the memory, and what it prints
output_char_value(mem, char_value) ==
    [mem |-> [mem EXCEPT !.output_stack = Append(@, char_value)],
     printed |-> IF mem.interact_with_user THEN <<<<"char", char_value>>>> ELSE <<>>]

\* input_char_value; stdin is what the read of the standard input gives when
\* it comes to that: <<b>> for a byte, <<>> for the end of input or an error
input_char_value(mem, stdin) ==
    IF mem.input_stack # <<>>
    THEN [mem |-> [mem EXCEPT !.input_stack = ButLast(@)],
          value |-> Last(mem.input_stack),
          printed |-> <<>>,
          blocked |-> FALSE]
    ELSE IF mem.interact_with_user
         THEN [mem |-> mem,
               value |-> IF stdin = <<>> THEN 0 ELSE stdin[1],
               printed |-> <<<<"esc", 36>>, <<"esc", 39>>>>,
               blocked |-> TRUE]
         ELSE [mem |-> mem, value |-> 0, printed |-> <<>>, blocked |-> FALSE]

\* the loop over the entries with the multiplier read from the head cell at
\* each entry, not once before the loop
RECURSIVE ApplyCellDeltasLiveN(_, _, _, _)
ApplyCellDeltasLiveN(x, order, k, mult) ==
    IF k > Len(order) \/ ~x.ok THEN x
    ELSE LET relative_head == order[k][1]
             delta     == order[k][2]
             index     == x.mem.head + relative_head
             old_value == get(x.mem, index)
             sum       == IF mult = <<>> THEN old_value + delta
                                         ELSE old_value + delta * get(x.mem, x.mem.head)
             new_value == as_usize_rem_256(sum)
         IN  IF SetPanics(index)
             THEN [x EXCEPT !.ok = FALSE]
             ELSE ApplyCellDeltasLiveN([x EXCEPT !.mem = set(x.mem, index, new_value)],
                                       order, k + 1, mult)

\* for (relative_head, delta) in cell_deltas.iter() { .. }, the entries
\* coming in the order `order`; mult is <<>> for `old_value + delta` and
\* <<n>> for `old_value + delta * n`
RECURSIVE ApplyCellDeltas(_, _, _, _)
ApplyCellDeltas(x, order, k, mult) ==
    IF k > Len(order) \/ ~x.ok THEN x
    ELSE LET relative_head == order[k][1]
             delta     == order[k][2]
             index     == x.mem.head + relative_head
             old_value == get(x.mem, index)
             sum       == IF mult = <<>> THEN old_value + delta
                                         ELSE old_value + delta * mult[1]
             new_value == as_usize_rem_256(sum)
         IN  IF SetPanics(index)
             THEN [x EXCEPT !.ok = FALSE]
             ELSE ApplyCellDeltas([x EXCEPT !.mem = set(x.mem, index, new_value)],
                                  order, k + 1, mult)

\* the orders in which a HashMap may hand out its entries
IterOrders(map) ==
    {o \in [1..Cardinality(map) -> map] : \A j, k \in DOMAIN o : j # k => o[j] # o[k]}

----------------------------------------------------------------------------
(* The C code generator *)

(***************************************************************************)
(* The String `code` is kept as the sequence of its lines.  A line is the  *)
(* number of tabs emit_line puts before it and its content; a content is   *)
(* the format string it was made of and the arguments of the format, so    *)
(* that "m[{}] += {};" with <<h(2), -1>> stands for `m[h + 2] += -1;`.     *)
(***************************************************************************)

Text(s) == [fmt |-> s, args |-> <<>>]

Format1(s, a) == [fmt |-> s, args |-> <<a>>]

Format2(s, a, b) == [fmt |-> s, args |-> <<a, b>>]

\* TranspiledC::new; ok is FALSE once an assertion has failed
TranspiledCNew == [code |-> <<>>, indent_level |-> 0, ok |-> TRUE]

emit_line(t, line_content) ==
    [t EXCEPT !.code = Append(@, [tabs |-> t.indent_level, content |-> line_content])]

emit_indent(t) == [t EXCEPT !.indent_level = @ + 1]

emit_unindent(t) == [t EXCEPT !.indent_level = @ - 1]

emit_header(t) ==
    IF ~(Len(t.code) = 0 /\ t.indent_level = 0) THEN [t EXCEPT !.ok = FALSE]
    ELSE LET t1 == emit_line(t, Text("#include <stdio.h>"))
             t2 == emit_line(t1, Text("int main(void)"))
             t3 == emit_indent(emit_line(t2, Text("{")))
             t4 == emit_line(t3, Text("unsigned char m[30000] = {0};"))
         IN  emit_line(t4, Text("unsigned int h = 0;"))

emit_footer(t) ==
    LET t1 == emit_unindent(emit_line(t, Text("return 0;")))
        t2 == emit_line(t1, Text("}"))
    IN  IF t2.indent_level = 0 THEN t2 ELSE [t2 EXCEPT !.ok = FALSE]

\* fn h(relative_head: isize) -> String
h(relative_head) ==
    IF relative_head = 0 THEN Text("h") ELSE Format1("h + {}", relative_head)

\* sort_cell_deltas that sorts by descending key
RECURSIVE SortCellDeltasDescending(_)
SortCellDeltasDescending(cell_deltas) ==
    IF cell_deltas = {} THEN <<>>
    ELSE LET highest == CHOOSE e \in cell_deltas : \A f \in cell_deltas : e[1] >= f[1]
         IN  <<highest>> \o SortCellDeltasDescending(cell_deltas \ {highest})

\* the entries of the map, sorted by ascending key (a key comes once)
RECURSIVE sort_cell_deltas(_)
sort_cell_deltas(cell_deltas) ==
    IF cell_deltas = {} THEN <<>>
    ELSE LET lowest == CHOOSE e \in cell_deltas : \A f \in cell_deltas : e[1] <= f[1]
         IN  <<lowest>> \o sort_cell_deltas(cell_deltas \ {lowest})

\* for (relative_head, delta) in cell_deltas { emit_line(format!("m[{}] += {};", ..)) }
RECURSIVE EmitDeltaLines(_, _, _)
EmitDeltaLines(t, sorted, k) ==
    IF k > Len(sorted) THEN t
    ELSE EmitDeltaLines(
            emit_line(t, Format2("m[{}] += {};", h(sorted[k][1]), sorted[k][2])),
            sorted, k + 1)

\* the for loop of the MultFixedLoop arm that skips no entry
RECURSIVE EmitMultLinesAll(_, _, _)
EmitMultLinesAll(t, sorted, k) ==
    IF k > Len(sorted) THEN t
    ELSE EmitMultLinesAll(
            emit_line(t, Format2("m[{}] += m[h] * {};", h(sorted[k][1]), sorted[k][2])),
            sorted, k + 1)

\* for (relative_head, delta) in cell_deltas.iter() { if *relative_head == 0 { continue; } .. }
RECURSIVE EmitMultLines(_, _, _)
EmitMultLines(t, sorted, k) ==
    IF k > Len(sorted) THEN t
    ELSE IF sorted[k][1] = 0 THEN EmitMultLines(t, sorted, k + 1)
    ELSE EmitMultLines(
            emit_line(t, Format2("m[{}] += m[h] * {};", h(sorted[k][1]), sorted[k][2])),
            sorted, k + 1)

WhileOpen(t) ==
    emit_indent(emit_line(emit_line(t, Text("while (m[h])")), Text("{")))

WhileClose(t) == emit_line(emit_unindent(t), Text("}"))

RECURSIVE emit_raw_instr_seq(_, _)
\* one arm of the match of emit_raw_instr_seq
EmitRawInstr(t, instr) ==
    CASE instr.op = "Plus"  -> emit_line(t, Text("m[h]++;"))
      [] instr.op = "Minus" -> emit_line(t, Text("m[h]--;"))
      [] instr.op = "Left"  -> emit_line(t, Text("h--;"))
      [] instr.op = "Right" -> emit_line(t, Text("h++;"))
      [] instr.op = "Dot"   -> emit_line(t, Text("putchar(m[h]);"))
      [] instr.op = "Comma" -> emit_line(t, Text("m[h] = getchar();"))
      [] instr.op = "BracketLoop" ->
            WhileClose(emit_raw_instr_seq(WhileOpen(t), instr.body))

\* the arms for instr_seq[a..b], in their order; the range is taken by halves
RECURSIVE EmitRawRange(_, _, _, _)
EmitRawRange(t, instr_seq, a, b) ==
    CASE a > b \/ ~Evaluated(t) -> t
      [] a = b /\ Evaluated(t) -> EmitRawInstr(t, instr_seq[a])
      [] a < b /\ Evaluated(t) ->
            EmitRawRange(EmitRawRange(t, instr_seq, a, (a + b) \div 2),
                         instr_seq, (a + b) \div 2 + 1, b)

emit_raw_instr_seq(t, instr_seq) == EmitRawRange(t, instr_seq, 1, Len(instr_seq))

RECURSIVE emit_soup_instr_seq(_, _)
\* one arm of the match of emit_soup_instr_seq
EmitSoupInstr(t, instr) ==
    CASE instr.op = "Soup" ->
            LET t1 == EmitDeltaLines(t, sort_cell_deltas(instr.cell_deltas), 1)
            IN  IF instr.head_delta # 0
                THEN emit_line(t1, Format1("h += {};", instr.head_delta))
                ELSE t1
      [] instr.op = "Output" -> emit_line(t, Text("putchar(m[h]);"))
      [] instr.op = "Input"  -> emit_line(t, Text("m[h] = getchar();"))
      [] instr.op = "MultFixedLoop" ->
            IF ~(MapHas(instr.cell_deltas, 0) /\ MapGet(instr.cell_deltas, 0) = -1)
            THEN [t EXCEPT !.ok = FALSE]
            ELSE emit_line(EmitMultLines(t, sort_cell_deltas(instr.cell_deltas), 1),
                           Text("m[h] = 0;"))
      [] instr.op = "SoupFixedLoop" ->
            WhileClose(EmitDeltaLines(WhileOpen(t), sort_cell_deltas(instr.cell_deltas), 1))
      [] instr.op = "SoupMovingLoop" ->
            LET t1 == EmitDeltaLines(WhileOpen(t), sort_cell_deltas(instr.cell_deltas), 1)
            IN  WhileClose(emit_line(t1, Format1("h += {};", instr.head_delta)))
      [] instr.op = "Loop" ->
            WhileClose(emit_soup_instr_seq(WhileOpen(t), instr.body))

\* the arms for instr_seq[a..b], in their order; the range is taken by
\* halves, and a failed assertion ends the generation
RECURSIVE EmitSoupRange(_, _, _, _)
EmitSoupRange(t, instr_seq, a, b) ==
    CASE a > b \/ ~t.ok -> t
      [] a = b /\ t.ok -> EmitSoupInstr(t, instr_seq[a])
      [] a < b /\ t.ok ->
            EmitSoupRange(EmitSoupRange(t, instr_seq, a, (a + b) \div 2),
                          instr_seq, (a + b) \div 2 + 1, b)

emit_soup_instr_seq(t, instr_seq) == EmitSoupRange(t, instr_seq, 1, Len(instr_seq))

\* the String returned, or the panic of an assertion
Transpiled(t) ==
    IF t.ok THEN [tag |-> "Ok", code |-> t.code] ELSE [tag |-> "Panicked", code |-> <<>>]

transpile_raw_to_c(instr_seq) ==
    LET body == emit_raw_instr_seq(emit_header(TranspiledCNew), instr_seq)
    IN  Transpiled(IF body.ok THEN emit_footer(body) ELSE body)

transpile_soup_to_c(instr_seq) ==
    LET body == emit_soup_instr_seq(emit_header(TranspiledCNew), instr_seq)
    IN  Transpiled(IF body.ok THEN emit_footer(body) ELSE body)

----------------------------------------------------------------------------
(* What the emitted C statements do *)

(***************************************************************************)
(* The state of the emitted program: the array m (cells past the end of    *)
(* `cells` hold the 0 of the initialiser), the index h, the bytes putchar  *)
(* has written and the bytes getchar has still to read.  h is an unsigned  *)
(* int; a value that has wrapped below zero is kept as the negative        *)
(* integer it is congruent to modulo 2^32, which is no index of m.  An     *)
(* access outside m is undefined behaviour: ub is set and the execution is *)
(* not followed further, nothing being known of its outcome.               *)
(***************************************************************************)

\* unsigned char m[30000]
CTapeLen == 30000

CStart(stdin) == [cells |-> <<>>, h |-> 0, out |-> <<>>, stdin |-> stdin, ub |-> FALSE]

CInTape(index) == 0 <= index /\ index < CTapeLen

CRead(st, index) == IF index < Len(st.cells) THEN st.cells[index + 1] ELSE 0

\* m[index] = value, the value converted to unsigned char
CWrite(st, index, value) ==
    IF ~CInTape(index) THEN [st EXCEPT !.ub = TRUE]
    ELSE LET len   == Len(st.cells)
             grown == IF len <= index THEN st.cells \o Zeros(index + 1 - len)
                                      ELSE st.cells
         IN  [st EXCEPT !.cells = [grown EXCEPT ![index + 1] = value % 256]]

\* m[index] += by
CAdd(st, index, by) ==
    IF ~CInTape(index) THEN [st EXCEPT !.ub = TRUE]
    ELSE CWrite(st, index, CRead(st, index) + by)

\* the value of the index expression "h" or "h + {}"
HValue(st, hexpr) == IF hexpr.args = <<>> THEN st.h ELSE st.h + hexpr.args[1]

\* getchar(): the next byte, or EOF, which is -1
CGetchar(st) == IF st.stdin = <<>> THEN -1 ELSE Head(st.stdin)

\* one statement that is not a while
ExecStmt(st, content) ==
    LET f == content.fmt
        a == content.args
    IN  CASE f = "m[h]++;" -> CAdd(st, st.h, 1)
          [] f = "m[h]--;" -> CAdd(st, st.h, -1)
          [] f = "h--;" -> [st EXCEPT !.h = @ - 1]
          [] f = "h++;" -> [st EXCEPT !.h = @ + 1]
          [] f = "putchar(m[h]);" ->
                IF CInTape(st.h) THEN [st EXCEPT !.out = Append(@, CRead(st, st.h))]
                ELSE [st EXCEPT !.ub = TRUE]
          [] f = "m[h] = getchar();" ->
                [CWrite(st, st.h, CGetchar(st)) EXCEPT
                    !.stdin = IF st.stdin = <<>> THEN <<>> ELSE Tail(st.stdin)]
          [] f = "m[{}] += {};" -> CAdd(st, HValue(st, a[1]), a[2])
          [] f = "h += {};" -> [st EXCEPT !.h = @ + a[1]]
          [] f = "m[{}] += m[h] * {};" ->
                IF CInTape(st.h) THEN CAdd(st, HValue(st, a[1]), CRead(st, st.h) * a[2])
                ELSE [st EXCEPT !.ub = TRUE]
          [] f = "m[h] = 0;" -> CWrite(st, st.h, 0)
          [] f = "return 0;" -> st

\* how many blocks are open before line i
BlockDepth(code, i) ==
    Cardinality({j \in 1..(i - 1) : code[j].content.fmt = "{"})
        - Cardinality({j \in 1..(i - 1) : code[j].content.fmt = "}"})

\* the line of the "}" that closes the block whose "{" is at line open
CloseOf(code, open) ==
    LET closes == {j \in (open + 1)..Len(code) :
                      /\ code[j].content.fmt = "}"
                      /\ BlockDepth(code, j + 1) = BlockDepth(code, open)}
    IN  CHOOSE j \in closes : \A k \in closes : j <= k

\* the first lines of the statements of lines lo..hi, in their order: a
\* `while (m[h])` line stands for the whole statement with its block
StatementLines(code, lo, hi) ==
    LET firsts == {i \in lo..hi :
                      /\ BlockDepth(code, i) = BlockDepth(code, lo)
                      /\ code[i].content.fmt \notin {"{", "}"}}
    IN  [k \in 1..Cardinality(firsts) |->
            CHOOSE i \in firsts : Cardinality({j \in firsts : j < i}) = k - 1]

\* the statements whose first lines are firsts[a..b], one after the other;
\* the range is halved, which gives the same sequence of executions
RECURSIVE ExecStatements(_, _, _, _, _)
RECURSIVE ExecWhile(_, _, _, _)
ExecStatements(code, firsts, a, b, st) ==
    CASE a > b \/ st.ub -> st
      [] a = b /\ ~st.ub /\ code[firsts[a]].content.fmt = "while (m[h])" ->
            ExecWhile(code, firsts[a] + 2, CloseOf(code, firsts[a] + 1) - 1, st)
      [] a = b /\ ~st.ub /\ code[firsts[a]].content.fmt # "while (m[h])" ->
            ExecStmt(st, code[firsts[a]].content)
      [] a < b /\ ~st.ub ->
            ExecStatements(code, firsts, (a + b) \div 2 + 1, b,
                           ExecStatements(code, firsts, a, (a + b) \div 2, st))

ExecLines(code, lo, hi, st) ==
    LET firsts == StatementLines(code, lo, hi)
    IN  ExecStatements(code, firsts, 1, Len(firsts), st)

\* while (m[h]) { lines lo..hi }
ExecWhile(code, lo, hi, st) ==
    IF st.ub THEN st
    ELSE IF ~CInTape(st.h) THEN [st EXCEPT !.ub = TRUE]
    ELSE IF CRead(st, st.h) = 0 THEN st
    ELSE ExecWhile(code, lo, hi, ExecLines(code, lo, hi, st))

\* the number of lines emit_header emits
HeaderLen == Len(emit_header(TranspiledCNew).code)

\* main, from its first statement to the closing brace
CRun(code, stdin) == ExecLines(code, HeaderLen + 1, Len(code) - 1, CStart(stdin))

----------------------------------------------------------------------------
(* Inputs *)

\* source texts longer than MaxProgLen that the runs also take
Programs ==
    { <<"[", ">", "+", "<", "]", ">", ".">>,
      <<"[", "-", "<", "+", ">", "]">>,
      <<",", "[", "-", ">", "+", "+", "<", "]", ">", ".">>,
      <<",", ">", ",", "<", "[", "-", ">", "-", "<", "]", ">", ".">>,
      <<",", "[", ">", ",", "]", "<", ".">>,
      <<",", "[", ".", "-", "]">>,
      <<"+", "[", ">", "+", "]">>,
      <<",", "[", "+", "+", ">", "+", "<", "]", ">", ".">>,
      <<"-", "<", ">", ".">>,
      <<",", "[", ">", "]">>,
      <<",", "[", "+", "]">>,
      <<"[", ">", "+", "]">> }

\* the program that prints "Hello World!" and a line feed
HelloWorld ==
    << "+", "+", "+", "+", "+", "+", "+", "+", "[", ">", "+", "+",
       "+", "+", "[", ">", "+", "+", ">", "+", "+", "+", ">", "+",
       "+", "+", ">", "+", "<", "<", "<", "<", "-", "]", ">", "+",
       ">", "+", ">", "-", ">", ">", "+", "[", "<", "]", "<", "-",
       "]", ">", ">", ".", ">", "-", "-", "-", ".", "+", "+", "+",
       "+", "+", "+", "+", ".", ".", "+", "+", "+", ".", ">", ">",
       ".", "<", "-", ".", "<", ".", "+", "+", "+", ".", "-", "-",
       "-", "-", "-", "-", ".", "-", "-", "-", "-", "-", "-", "-",
       "-", ".", ">", ">", "+", ".", ">", "+", "+", "." >>

\* the programs whose runs are followed to their end, whatever they reach
FollowedToEnd == {HelloWorld}

SourceTexts == SeqsUpTo(SignificantChars, MaxProgLen) \cup Programs \cup FollowedToEnd

InputBytes == {0, 255}

\* Option<Vec<u8>>: None, or Some of a buffer
Inputs == {<<>>} \cup {<<b>> : b \in SeqsUpTo(InputBytes, MaxInputLen)}

\* what a read of the standard input may give: the end of input, or a byte
StdinReads == {<<>>, <<2>>}

InputCountCap == MaxInputLen + 2

\* a run is cut when it has printed more than this
StdoutCap == MaxOutput + 2 * InputCountCap + 1

NoOp == [op |-> "none", index |-> 0, value |-> 0]

----------------------------------------------------------------------------
(* parse_instr_seq, statement by statement *)

VmIdle ==
    /\ input = <<>>
    /\ soup_prog = <<>>
    /\ engine = "none"
    /\ m = VmMemNew(<<>>)
    /\ instr_stack = <<>>
    /\ vpc = "idle"
    /\ ret = <<>>
    /\ stdout = <<>>
    /\ stdin_blocked = FALSE
    /\ n_inputs = 0
    /\ first_run = <<>>
    /\ last_op = NoOp
    /\ written = {}
    /\ transpiled = <<>>

ParserStart ==
    /\ scan_i = 0
    /\ scope_stack = <<RootScope>>
    /\ errors = <<>>
    /\ ppc = "scan"
    /\ result = Pending

CurState == PState(scope_stack, errors, TRUE)

\* for (pos, c) in src_code.char_indices() { match c { ... } }
Scan ==
    /\ ppc = "scan"
    /\ scan_i < Len(src_code)
    /\ LET c   == src_code[scan_i + 1]
           pos == char_index(src_code, scan_i + 1)
           st  == MatchChar(CurState, c, pos)
       IN  /\ scope_stack' = st.scope_stack
           /\ errors' = st.errors
           /\ ppc' = IF st.ok THEN "scan" ELSE "panicked"
           /\ scan_i' = scan_i + 1
    /\ UNCHANGED <<src_code, result>>
    /\ UNCHANGED vmvars

\* the iterator is exhausted; assert!(scope_stack.0.len() != 0)
ScanEnd ==
    /\ ppc = "scan"
    /\ scan_i = Len(src_code)
    /\ ppc' = IF Len(scope_stack) # 0 THEN "drain" ELSE "panicked"
    /\ UNCHANGED <<src_code, scan_i, scope_stack, errors, result>>
    /\ UNCHANGED vmvars

\* while scope_stack.0.len() >= 2 { ... remove(1) ... }
Drain ==
    /\ ppc = "drain"
    /\ Len(scope_stack) >= 2
    /\ LET st == DrainOne(CurState)
       IN  /\ scope_stack' = st.scope_stack
           /\ errors' = st.errors
           /\ ppc' = IF st.ok THEN "drain" ELSE "panicked"
    /\ UNCHANGED <<src_code, scan_i, result>>
    /\ UNCHANGED vmvars

\* if errors.is_empty() { Ok(scope_stack.0.pop().unwrap().instr_seq) } else { Err(errors) }
Return ==
    /\ ppc = "drain"
    /\ Len(scope_stack) < 2
    /\ result' = ReturnValue(CurState)
    /\ ppc' = IF result'.tag = "Panicked" THEN "panicked" ELSE "done"
    /\ scope_stack' = IF result'.tag = "Ok" THEN StackPop(scope_stack) ELSE scope_stack
    /\ UNCHANGED <<src_code, scan_i, errors>>
    /\ UNCHANGED vmvars

PInit ==
    /\ src_code \in SeqsUpTo(Alphabet, MaxSrcLen)
    /\ ParserStart
    /\ VmIdle

PNext == Scan \/ ScanEnd \/ Drain \/ Return

SpecParse == PInit /\ [][PNext]_vars

----------------------------------------------------------------------------
(* run_raw and run_soup, one turn of their while loop at a time *)

Fixed == <<src_code, scan_i, scope_stack, errors, ppc, result,
           input, soup_prog, engine, first_run, last_op, written, transpiled>>

\* a run is followed while its tape and its output stay within the bounds
WithinBounds(mem) ==
    \/ src_code \in FollowedToEnd
    \/ /\ Len(mem.cell_vec) <= MaxCell + 1
       /\ mem.head <= MaxCell
       /\ Len(mem.output_stack) <= MaxOutput

CountInput(n) == IF n < InputCountCap THEN n + 1 ELSE n

\* let mut m = VmMem::new(input); let mut instr_stack = instr_seq.into_iter().rev().collect();
\* the first call takes any input, the second one the input of the first
Call(e, prog) ==
    /\ \/ /\ vpc = "idle"
          /\ ppc = "done"
          /\ result.tag = "Ok"
          /\ input' \in Inputs
          /\ first_run' = <<>>
       \/ /\ vpc \in {"returned", "panicked"}
          /\ first_run = <<>>
          /\ engine # e
          /\ input' = input
          /\ first_run' = <<[engine |-> engine, vpc |-> vpc, ret |-> ret, m |-> m]>>
    /\ engine' = e
    /\ soup_prog' = soupify(result.instr_seq)
    /\ m' = VmMemNew(input')
    /\ instr_stack' = Reverse(prog)
    /\ vpc' = "run"
    /\ ret' = <<>>
    /\ stdout' = <<>>
    /\ stdin_blocked' = FALSE
    /\ n_inputs' = 0
    /\ UNCHANGED <<pvars, last_op, written, transpiled>>

CallRunRaw == Call("raw", result.instr_seq)

CallRunSoup == Call("soup", soupify(result.instr_seq))

\* while let Some(instr) = instr_stack.pop() { match &instr { name => .. } }
Popped(e, name) ==
    /\ engine = e
    /\ vpc = "run"
    /\ instr_stack # <<>>
    /\ Last(instr_stack).op = name

Continue(mem) ==
    /\ WithinBounds(mem)
    /\ m' = mem
    /\ vpc' = "run"

Panic(mem) ==
    /\ m' = mem
    /\ vpc' = "panicked"

Quiet == UNCHANGED <<ret, stdout, stdin_blocked, n_inputs>>

RawPlus ==
    /\ Popped("raw", "Plus")
    /\ Continue(set(m, m.head, wrapping_add(get(m, m.head), 1)))
    /\ instr_stack' = ButLast(instr_stack)
    /\ Quiet
    /\ UNCHANGED Fixed

RawMinus ==
    /\ Popped("raw", "Minus")
    /\ Continue(set(m, m.head, wrapping_sub(get(m, m.head), 1)))
    /\ instr_stack' = ButLast(instr_stack)
    /\ Quiet
    /\ UNCHANGED Fixed

\* assert!(m.head >= 1); m.head -= 1;
RawLeft ==
    /\ Popped("raw", "Left")
    /\ IF m.head >= 1 THEN Continue([m EXCEPT !.head = @ - 1]) ELSE Panic(m)
    /\ instr_stack' = ButLast(instr_stack)
    /\ Quiet
    /\ UNCHANGED Fixed

RawRight ==
    /\ Popped("raw", "Right")
    /\ Continue([m EXCEPT !.head = @ + 1])
    /\ instr_stack' = ButLast(instr_stack)
    /\ Quiet
    /\ UNCHANGED Fixed

\* Dot of run_raw and Output of run_soup
DoOutput ==
    LET out == output_char_value(m, get(m, m.head))
    IN  /\ Continue(out.mem)
        /\ stdout' = stdout \o out.printed
        /\ instr_stack' = ButLast(instr_stack)
        /\ UNCHANGED <<ret, stdin_blocked, n_inputs>>
        /\ UNCHANGED Fixed

\* Comma of run_raw and Input of run_soup
DoInput ==
    \E stdin \in StdinReads :
       LET in == input_char_value(m, stdin)
       IN  /\ in.blocked \/ stdin = <<>>
           /\ Len(stdout \o in.printed) <= StdoutCap
           /\ IF SetPanics(m.head)
              THEN Panic(in.mem)
              ELSE Continue(set(in.mem, m.head, in.value))
           /\ stdout' = stdout \o in.printed
           /\ stdin_blocked' = (stdin_blocked \/ in.blocked)
           /\ n_inputs' = CountInput(n_inputs)
           /\ instr_stack' = ButLast(instr_stack)
           /\ UNCHANGED ret
           /\ UNCHANGED Fixed

RawDot == Popped("raw", "Dot") /\ DoOutput

RawComma == Popped("raw", "Comma") /\ DoInput

\* a loop that is not pushed back: its body runs once at most
DoLoopOnce ==
    LET instr == Last(instr_stack)
    IN  /\ instr_stack' = IF get(m, m.head) # 0
                          THEN ButLast(instr_stack) \o Reverse(instr.body)
                          ELSE ButLast(instr_stack)
        /\ Continue(m)
        /\ Quiet
        /\ UNCHANGED Fixed

\* a loop whose body is pushed first instruction first, so that its last
\* instruction is the one popped next
DoLoopBodyForward ==
    LET instr == Last(instr_stack)
    IN  /\ instr_stack' = IF get(m, m.head) # 0
                          THEN instr_stack \o instr.body
                          ELSE ButLast(instr_stack)
        /\ Continue(m)
        /\ Quiet
        /\ UNCHANGED Fixed

\* if m.get(m.head) != 0 { push(instr.clone()); extend(body.iter().rev().cloned()) }
DoLoop ==
    LET instr == Last(instr_stack)
    IN  /\ instr_stack' = IF get(m, m.head) # 0
                          THEN instr_stack \o Reverse(instr.body)
                          ELSE ButLast(instr_stack)
        /\ Continue(m)
        /\ Quiet
        /\ UNCHANGED Fixed

RawBracketLoop == Popped("raw", "BracketLoop") /\ DoLoop

\* the while loop is over: the last println, and the output is returned
DoReturn(e) ==
    /\ engine = e
    /\ vpc = "run"
    /\ instr_stack = <<>>
    /\ stdout' = IF /\ m.interact_with_user
                    /\ m.output_stack # <<>>
                    /\ Last(m.output_stack) # 10
                 THEN Append(stdout, <<"char", 10>>)
                 ELSE stdout
    /\ ret' = <<m.output_stack>>
    /\ vpc' = "returned"
    /\ UNCHANGED <<m, instr_stack, stdin_blocked, n_inputs>>
    /\ UNCHANGED Fixed

RawReturn == DoReturn("raw")

\* Block::Soup
SoupSoup ==
    /\ Popped("soup", "Soup")
    /\ \E order \in IterOrders(Last(instr_stack).cell_deltas) :
          LET x == ApplyCellDeltas([mem |-> m, ok |-> TRUE], order, 1, <<>>)
          IN  IF x.ok
              THEN Continue([x.mem EXCEPT !.head = @ + Last(instr_stack).head_delta])
              ELSE Panic(x.mem)
    /\ instr_stack' = ButLast(instr_stack)
    /\ Quiet
    /\ UNCHANGED Fixed

SoupOutput == Popped("soup", "Output") /\ DoOutput

SoupInput == Popped("soup", "Input") /\ DoInput

\* Block::MultFixedLoop
SoupMultFixedLoop ==
    /\ Popped("soup", "MultFixedLoop")
    /\ LET cell_deltas == Last(instr_stack).cell_deltas
           n == get(m, m.head)
       IN  IF ~(MapHas(cell_deltas, 0) /\ MapGet(cell_deltas, 0) = -1)
           THEN Panic(m)
           ELSE \E order \in IterOrders(cell_deltas) :
                   LET x == ApplyCellDeltas([mem |-> m, ok |-> TRUE], order, 1, <<n>>)
                   IN  IF x.ok /\ ~SetPanics(m.head)
                       THEN Continue(set(x.mem, m.head, 0))
                       ELSE Panic(x.mem)
    /\ instr_stack' = ButLast(instr_stack)
    /\ Quiet
    /\ UNCHANGED Fixed

\* Block::SoupFixedLoop
SoupSoupFixedLoop ==
    /\ Popped("soup", "SoupFixedLoop")
    /\ \E order \in IterOrders(Last(instr_stack).cell_deltas) :
          LET x == ApplyCellDeltas([mem |-> m, ok |-> TRUE], order, 1, <<>>)
          IN  IF x.ok
              THEN /\ Continue(x.mem)
                   /\ instr_stack' = IF get(x.mem, x.mem.head) # 0
                                     THEN instr_stack
                                     ELSE ButLast(instr_stack)
              ELSE /\ Panic(x.mem)
                   /\ instr_stack' = ButLast(instr_stack)
    /\ Quiet
    /\ UNCHANGED Fixed

\* Block::SoupMovingLoop
SoupSoupMovingLoop ==
    /\ Popped("soup", "SoupMovingLoop")
    /\ \E order \in IterOrders(Last(instr_stack).cell_deltas) :
          LET x == ApplyCellDeltas([mem |-> m, ok |-> TRUE], order, 1, <<>>)
              moved == [x.mem EXCEPT !.head = @ + Last(instr_stack).head_delta]
          IN  IF x.ok
              THEN /\ Continue(moved)
                   /\ instr_stack' = IF get(moved, moved.head) # 0
                                     THEN instr_stack
                                     ELSE ButLast(instr_stack)
              ELSE /\ Panic(x.mem)
                   /\ instr_stack' = ButLast(instr_stack)
    /\ Quiet
    /\ UNCHANGED Fixed

SoupLoop == Popped("soup", "Loop") /\ DoLoop

SoupReturn == DoReturn("soup")

Init ==
    /\ src_code \in SourceTexts
    /\ ParserStart
    /\ VmIdle

Next ==
    \/ Scan \/ ScanEnd \/ Drain \/ Return
    \/ CallRunRaw \/ CallRunSoup
    \/ RawPlus \/ RawMinus \/ RawLeft \/ RawRight \/ RawDot \/ RawComma
    \/ RawBracketLoop \/ RawReturn
    \/ SoupSoup \/ SoupOutput \/ SoupInput \/ SoupMultFixedLoop
    \/ SoupSoupFixedLoop \/ SoupSoupMovingLoop \/ SoupLoop \/ SoupReturn

Spec == Init /\ [][Next]_vars

----------------------------------------------------------------------------
(* VmMem::get and VmMem::set, called in any order *)

MemValues == {0, 1, 255}

MemFixed == <<src_code, scan_i, scope_stack, errors, ppc, result, input, soup_prog,
              engine, instr_stack, vpc, ret, stdout, stdin_blocked, n_inputs, first_run,
              transpiled>>

MapPut(map, key, value) == {e \in map : e[1] # key} \cup {<<key, value>>}

\* fn get(&self, index: usize) -> u8
MemGet ==
    \E index \in 0..MaxIndex :
       /\ last_op' = [op |-> "get", index |-> index, value |-> get(m, index)]
       /\ UNCHANGED <<m, written>>
       /\ UNCHANGED MemFixed

\* fn set(&mut self, index: usize, value: u8)
MemSet ==
    \E index \in 0..MaxIndex, value \in MemValues :
       /\ m' = set(m, index, value)
       /\ last_op' = [op |-> "set", index |-> index, value |-> value]
       /\ written' = MapPut(written, index, value)
       /\ UNCHANGED MemFixed

MemInit ==
    /\ src_code = <<>>
    /\ ParserStart
    /\ VmIdle

MemNext == MemGet \/ MemSet

SpecMem == MemInit /\ [][MemNext]_vars

----------------------------------------------------------------------------
(* Parsing, then soupify and the code generator *)

\* source texts longer than MaxCompileLen that are compiled as well
CompilePrograms ==
    { <<"[", "-", "]", "[", "+", "]", "[", ">", "]", "[", "]">>,
      <<"[", "[", "-", "]", ".", "]">>,
      <<"+", "+", ">", "-", "<", "<">>,
      <<"+", ">", ".", "-", ",", "[", "-", "]", ">">>,
      <<"[", "-", ">", "+", "<", "]">>,
      <<"[", "<", "+", ">", "-", ">", "+", "<", "]">>,
      <<"+", "<", "-", ">", ">", "+">>,
      <<"[", ">", "+", "<", "+", "]", "[", ">", "-", ">", "]">>,
      <<"[", ",", "[", ">", "+", "<", "-", "]", ">", ".", "<", "]">> }

CompileTexts == SeqsUpTo(SignificantChars, MaxCompileLen) \cup CompilePrograms

CompileFixed == <<src_code, scan_i, scope_stack, errors, ppc, result, input, engine, m,
                  instr_stack, vpc, ret, stdout, stdin_blocked, n_inputs, first_run,
                  last_op, written>>

Parsed == ppc = "done" /\ result.tag = "Ok"

\* transpile_soup_to_c(soupify(prog))
CompileSoup ==
    /\ Parsed
    /\ transpiled = <<>>
    /\ soup_prog' = soupify(result.instr_seq)
    /\ transpiled' = <<[target |-> "soup", out |-> transpile_soup_to_c(soup_prog')]>>
    /\ UNCHANGED CompileFixed

\* CompileTarget::C => transpile_raw_to_c(prog)
CompileRaw ==
    /\ Parsed
    /\ transpiled = <<>>
    /\ transpiled' = <<[target |-> "raw", out |-> transpile_raw_to_c(result.instr_seq)]>>
    /\ UNCHANGED soup_prog
    /\ UNCHANGED CompileFixed

CompileInit ==
    /\ src_code \in CompileTexts
    /\ ParserStart
    /\ VmIdle

CompileNext == Scan \/ ScanEnd \/ Drain \/ Return \/ CompileSoup \/ CompileRaw

SpecCompile == CompileInit /\ [][CompileNext]_vars

----------------------------------------------------------------------------
(* Properties of the parser *)

\* the source text with every character but the 8 significant ones deleted
StripComments(s) == SelectSeq(s, LAMBDA c : c \in SignificantChars)

\* the number of `]` read at depth 0 plus the number of `[` never closed,
\* counted on the text alone
RECURSIVE UnmatchedBrackets(_, _)
UnmatchedBrackets(s, depth) ==
    IF s = <<>> THEN depth
    ELSE CASE Head(s) = "[" -> UnmatchedBrackets(Tail(s), depth + 1)
           [] Head(s) = "]" -> IF depth > 0
                               THEN UnmatchedBrackets(Tail(s), depth - 1)
                               ELSE 1 + UnmatchedBrackets(Tail(s), 0)
           [] OTHER         -> UnmatchedBrackets(Tail(s), depth)

Kinds(errs) == [k \in 1..Len(errs) |-> errs[k].kind]

Returned == ppc = "done"

\* C4: parse_instr_seq returns Ok or a non-empty Err, never both; Ok exactly
\* when no error was recorded in the whole scan, which is exactly when the
\* brackets of the text are balanced; every unmatched bracket is recorded,
\* not only the first.
C4_OkXorNonEmptyErr ==
    Returned =>
        /\ result.tag \in {"Ok", "Err"}
        /\ (result.tag = "Ok") <=> (errors = <<>>)
        /\ (result.tag = "Ok") <=> (UnmatchedBrackets(src_code, 0) = 0)
        /\ result.tag = "Ok" => result.errors = <<>>
        /\ result.tag = "Err" =>
              /\ result.errors # <<>>
              /\ result.instr_seq = <<>>
              /\ result.errors = errors
              /\ Len(result.errors) = UnmatchedBrackets(src_code, 0)

C4_Witness ==
    /\ Returned
    /\ result.tag = "Err"
    /\ Len(result.errors) >= 3

\* C5: the error list is in strictly ascending source offset, the unmatched
\* closing brackets first and the unmatched opening brackets after them, and
\* `]+[` gives UnmatchedClosingBracket at 0 then UnmatchedOpeningBracket at 2.
C5_ErrorsAscending ==
    /\ \A j, k \in 1..Len(errors) :
          j < k =>
             /\ errors[j].pos < errors[k].pos
             /\ errors[j].kind = "UnmatchedOpeningBracket"
                   => errors[k].kind = "UnmatchedOpeningBracket"
    /\ (Returned /\ src_code = <<"]", "+", "[">>) =>
          result = Err(<<UnmatchedClosingBracket(0), UnmatchedOpeningBracket(2)>>)

C5_Witness ==
    /\ Returned
    /\ Len(src_code) = 4
    /\ Kinds(result.errors) = <<"UnmatchedClosingBracket", "UnmatchedOpeningBracket",
                                "UnmatchedOpeningBracket">>

\* the for loop is about to read a `]` while only the root scope is open
AtRootClosing ==
    /\ ppc = "scan"
    /\ scan_i < Len(src_code)
    /\ src_code[scan_i + 1] = "]"
    /\ Len(scope_stack) = 1

\* the text with the `]` that are read at depth 0 deleted
RECURSIVE DropRootClosings(_, _)
DropRootClosings(s, depth) ==
    IF s = <<>> THEN <<>>
    ELSE CASE Head(s) = "[" -> <<"[">> \o DropRootClosings(Tail(s), depth + 1)
           [] Head(s) = "]" -> IF depth > 0
                               THEN <<"]">> \o DropRootClosings(Tail(s), depth - 1)
                               ELSE DropRootClosings(Tail(s), 0)
           [] OTHER         -> <<Head(s)>> \o DropRootClosings(Tail(s), depth)

InstrSeqs(ss) == [k \in 1..Len(ss) |-> ss[k].instr_seq]

\* C6: a `]` read while only the root scope is open appends one
\* UnmatchedClosingBracket at its offset and leaves the scope stack as it
\* was; at the end of the scan the scopes hold what they would hold had
\* those `]` not been in the text.
C6_RootClosingKeepsStack ==
    /\ [][AtRootClosing =>
            /\ scope_stack' = scope_stack
            /\ errors' = Append(errors,
                            UnmatchedClosingBracket(char_index(src_code, scan_i + 1)))
            /\ ppc' = "scan"]_pvars
    /\ [](ppc = "scan" /\ scan_i = Len(src_code) =>
            InstrSeqs(scope_stack) =
               InstrSeqs(ScanFrom(PState(<<RootScope>>, <<>>, TRUE),
                                  DropRootClosings(src_code, 0), 1).scope_stack))

C6_Witness ==
    /\ ppc = "scan"
    /\ scan_i = Len(src_code)
    /\ errors # <<>>
    /\ src_code[1] = "]"
    /\ Len(scope_stack) = 2
    /\ scope_stack[1].instr_seq # <<>>

\* C7: parsing a text and parsing it with every character other than
\* + - < > . , [ ] deleted give the same tree, or the same kinds of errors
\* in the same order.
C7_CommentsIgnored ==
    Returned =>
        LET stripped == parse_instr_seq(StripComments(src_code))
        IN  /\ result.tag = stripped.tag
            /\ result.instr_seq = stripped.instr_seq
            /\ Kinds(result.errors) = Kinds(stripped.errors)

C7_Witness ==
    /\ Returned
    /\ result.tag = "Ok"
    /\ \E k \in 1..Len(src_code) : src_code[k] \in CommentChars
    /\ \E k \in 1..Len(result.instr_seq) : result.instr_seq[k].op = "BracketLoop"

----------------------------------------------------------------------------
(* Properties of the interpreters and of their memory *)

FirstRun == first_run[1]

Ended == vpc \in {"returned", "panicked"}

BothEnded == first_run # <<>> /\ Ended

\* the outcome of run_raw and of run_soup, once both have ended; with an
\* input buffer (input # <<>>) the two runs read the same bytes
RawOutcome ==
    IF engine = "raw" THEN [vpc |-> vpc, ret |-> ret, m |-> m]
    ELSE [vpc |-> FirstRun.vpc, ret |-> FirstRun.ret, m |-> FirstRun.m]

SoupOutcome ==
    IF engine = "soup" THEN [vpc |-> vpc, ret |-> ret, m |-> m]
    ELSE [vpc |-> FirstRun.vpc, ret |-> FirstRun.ret, m |-> FirstRun.m]

SameTape(m1, m2) == \A index \in 0..(MaxCell + 1) : get(m1, index) = get(m2, index)

\* C1: for a balanced program and a fixed input buffer, the output that
\* run_soup returns on the soupified program is the output that run_raw
\* returns on the program.
C1_SoupOutputAsRaw ==
    (/\ BothEnded /\ input # <<>>
     /\ RawOutcome.vpc = "returned" /\ SoupOutcome.vpc = "returned") =>
        SoupOutcome.ret = RawOutcome.ret

\* the program is Input and Soup nodes and then one MultFixedLoop, its last node
EndsWithMultLoop ==
    /\ soup_prog # <<>>
    /\ Last(soup_prog).op = "MultFixedLoop"
    /\ \A k \in 1..(Len(soup_prog) - 1) : soup_prog[k].op \in {"Input", "Soup"}

\* C2: a MultFixedLoop executed once by run_soup leaves the tape and the head
\* that run_raw leaves when it runs the bracket loop turn by turn until the
\* head cell is 0, whatever the cells hold when the loop is reached.
C2_MultLoopAsNaive ==
    (BothEnded /\ input # <<>> /\ EndsWithMultLoop /\ RawOutcome.vpc = "returned") =>
        /\ SoupOutcome.vpc = "returned"
        /\ SoupOutcome.m.head = RawOutcome.m.head
        /\ SameTape(SoupOutcome.m, RawOutcome.m)

\* The same where every cell the loop names exists (head + offset >= 0; the
\* loop does not move the head): the arithmetic of the one-shot loop
MultLoopAsNaiveOnTape ==
    (/\ BothEnded /\ input # <<>> /\ EndsWithMultLoop /\ RawOutcome.vpc = "returned"
     /\ \A e \in Last(soup_prog).cell_deltas : RawOutcome.m.head + e[1] >= 0) =>
        /\ SoupOutcome.vpc = "returned"
        /\ SoupOutcome.m.head = RawOutcome.m.head
        /\ SameTape(SoupOutcome.m, RawOutcome.m)

\* C3: in run_raw and in run_soup a move of the head below index 0 ends the
\* run at once: the head of a run that goes on, or that returned, is never
\* below 0.
C3_UnderflowIsFatal ==
    vpc \in {"run", "returned"} => m.head >= 0

\* new is the residue of sum modulo 256
IsResidue(new, sum) == new \in 0..255 /\ (new - sum) % 256 = 0

AllBytes(mem) == \A k \in 1..Len(mem.cell_vec) : mem.cell_vec[k] \in 0..255

\* C8: every cell write stores the residue modulo 256 of old + delta (of
\* old + delta * n in a MultFixedLoop), for a sum below 0 and for a sum above
\* 255: Plus on 255 gives 0, Minus on 0 gives 255.
C8_CellWritesWrap ==
    /\ [](AllBytes(m))
    /\ [][(vpc = "run" /\ vpc' = "run" /\ instr_stack # <<>>) =>
            LET instr == Last(instr_stack)
                old(index) == get(m, index)
                new(index) == get(m', index)
            IN  CASE engine = "raw" /\ instr.op = "Plus" ->
                        /\ IsResidue(new(m.head), old(m.head) + 1)
                        /\ old(m.head) = 255 => new(m.head) = 0
                  [] engine = "raw" /\ instr.op = "Minus" ->
                        /\ IsResidue(new(m.head), old(m.head) - 1)
                        /\ old(m.head) = 0 => new(m.head) = 255
                  [] engine = "soup"
                     /\ instr.op \in {"Soup", "SoupFixedLoop", "SoupMovingLoop"} ->
                        \A e \in instr.cell_deltas :
                           IsResidue(new(m.head + e[1]), old(m.head + e[1]) + e[2])
                  [] engine = "soup" /\ instr.op = "MultFixedLoop" ->
                        \A e \in instr.cell_deltas :
                           IsResidue(new(m.head + e[1]),
                                     old(m.head + e[1]) + e[2] * old(m.head))
                  [] OTHER -> TRUE]_vars

C8_Witness ==
    /\ engine = "soup"
    /\ vpc = "returned"
    /\ src_code = <<",", ">", ",", "<", "[", "-", ">", "-", "<", "]", ">", ".">>
    /\ input = << <<255, 0>> >>
    /\ ret = << <<1>> >>

\* the value of the last set at index, or 0 when it was never set
LastWritten(index) == IF MapHas(written, index) THEN MapGet(written, index) ELSE 0

\* C9: get(i) gives the value last set at i, or 0 if i was never set; a set
\* at k at or beyond the length makes the length k + 1 with zeros between,
\* changes no other cell, and the length never decreases; get changes nothing.
C9_MemGetSet ==
    /\ [](\A index \in 0..(MaxIndex + 1) : get(m, index) = LastWritten(index))
    /\ [][/\ Len(m'.cell_vec) >= Len(m.cell_vec)
          /\ last_op'.op = "get" =>
                /\ m' = m
                /\ last_op'.value = LastWritten(last_op'.index)
          /\ last_op'.op = "set" =>
                LET k   == last_op'.index
                    len == Len(m.cell_vec)
                IN  /\ Len(m'.cell_vec) = IF k >= len THEN k + 1 ELSE len
                    /\ m'.cell_vec[k + 1] = last_op'.value
                    /\ \A i \in len..(k - 1) : m'.cell_vec[i + 1] = 0
                    /\ \A i \in 0..(MaxIndex + 1) : i # k => get(m', i) = get(m, i)
         ]_vars

C9_Witness ==
    /\ last_op = [op |-> "get", index |-> MaxIndex, value |-> 255]
    /\ Len(m.cell_vec) = MaxIndex + 1
    /\ \A k \in 1..MaxIndex : m.cell_vec[k] = 0
    /\ written = {<<MaxIndex, 255>>}

\* the byte the k-th Input (k from 0) stores when the input buffer is b
ExpectedInput(b, k) == IF k < Len(b) THEN b[k + 1] ELSE 0

\* C10: with an input buffer b, the k-th Input executed stores b[k] for
\* k < len(b) and 0 for every later k; the run never reads the standard
\* input and prints nothing while it runs.
C10_BatchInput ==
    /\ [](vpc # "idle" /\ input # <<>> => stdout = <<>> /\ ~stdin_blocked)
    /\ [][(/\ vpc = "run" /\ vpc' = "run" /\ instr_stack # <<>>
           /\ Last(instr_stack).op \in {"Comma", "Input"}
           /\ input # <<>>) =>
             get(m', m.head) = ExpectedInput(input[1], n_inputs)]_vars

C10_Witness ==
    /\ vpc = "returned"
    /\ input = << <<255, 255>> >>
    /\ n_inputs = 3
    /\ ret = << <<255>> >>
    /\ stdout = <<>>

----------------------------------------------------------------------------
(* Properties of the three ways to run a program *)

\* "Hello World!" and a line feed
HelloBytes == <<72, 101, 108, 108, 111, 32, 87, 111, 114, 108, 100, 33, 10>>

\* what the emitted C program reads: the input buffer, or nothing
CStdin == IF input = <<>> THEN <<>> ELSE input[1]

\* the bytes the emitted program writes, <<>> for None when it is not known
COutput(c) ==
    IF c.tag # "Ok" THEN <<>>
    ELSE LET st == CRun(c.code, CStdin)
         IN  IF st.ub THEN <<>> ELSE <<st.out>>

\* C11: the Hello World program never panics; when run_raw or run_soup
\* returns, it returns the 13 bytes of "Hello World!\n", and the C source
\* generated from the raw program and the one generated from the soup write
\* these 13 bytes as well
C11_HelloWorld ==
    src_code = HelloWorld =>
        /\ ppc # "panicked"
        /\ vpc # "panicked"
        /\ vpc = "returned" =>
              /\ ret = <<HelloBytes>>
              /\ COutput(transpile_soup_to_c(soup_prog)) = <<HelloBytes>>
              /\ COutput(transpile_raw_to_c(result.instr_seq)) = <<HelloBytes>>

C11_Witness ==
    /\ src_code = HelloWorld
    /\ BothEnded
    /\ FirstRun.vpc = "returned"
    /\ vpc = "returned"
    /\ ret = <<HelloBytes>>
    /\ Len(soup_prog) > 1

\* the state of the emitted program that has the tape and the head of mem
CStateOf(mem) ==
    [cells |-> mem.cell_vec, h |-> mem.head, out |-> <<>>, stdin |-> <<>>, ub |-> FALSE]

\* the statements emitted for one block, executed from st; for a block that
\* is emitted as `while (m[h]) { .. }`, one turn of the while: the test of
\* m[h] and, if it is not 0, the statements of the block
EmittedTurn(block, st) ==
    LET code == EmitSoupInstr(TranspiledCNew, block).code
    IN  IF block.op \in {"SoupFixedLoop", "SoupMovingLoop"}
        THEN IF ~CInTape(st.h) THEN [st EXCEPT !.ub = TRUE]
             ELSE IF CRead(st, st.h) = 0 THEN st
             ELSE ExecLines(code, 3, Len(code) - 1, st)
        ELSE ExecLines(code, 1, Len(code), st)

SameAsEmitted(st, mem) ==
    /\ st.h = mem.head
    /\ \A index \in 0..(MaxCell + 2) : CRead(st, index) = get(mem, index)

\* C12: when run_soup handles a Batch, a MultFixedLoop, a FixedLoop or a
\* MovingLoop and goes on, the tape and the head it leaves are those that
\* the statements emitted for the block leave from the same tape and head
\* (for the two loops, those that one turn of the emitted while leaves),
\* in every state from which the statements stay within the tape
C12_GeneratorMirrorsEngine ==
    [][(/\ engine = "soup" /\ vpc = "run" /\ instr_stack # <<>> /\ vpc' = "run"
        /\ Last(instr_stack).op \in {"Soup", "MultFixedLoop", "SoupFixedLoop", "SoupMovingLoop"}
        /\ ~EmittedTurn(Last(instr_stack), CStateOf(m)).ub) =>
          SameAsEmitted(EmittedTurn(Last(instr_stack), CStateOf(m)), m')]_vars

\* the program is Input and Soup nodes and then one SoupFixedLoop or
\* SoupMovingLoop, its last node
EndsWithSoupLoop ==
    /\ soup_prog # <<>>
    /\ Last(soup_prog).op \in {"SoupFixedLoop", "SoupMovingLoop"}
    /\ \A k \in 1..(Len(soup_prog) - 1) : soup_prog[k].op \in {"Input", "Soup"}

\* C15: a SoupFixedLoop or SoupMovingLoop executed by run_soup leaves the
\* tape and the head that run_raw leaves when it runs the bracket loop turn
\* by turn, whatever the head cell holds when the loop is reached, 0 included
C15_SoupLoopAsNaive ==
    (BothEnded /\ input # <<>> /\ EndsWithSoupLoop /\ RawOutcome.vpc = "returned") =>
        /\ SoupOutcome.vpc = "returned"
        /\ SoupOutcome.m.head = RawOutcome.m.head
        /\ SameTape(SoupOutcome.m, RawOutcome.m)

\* The same for the loops reached with a head cell that is not 0
SoupLoopAsNaiveFromNonzero ==
    (/\ BothEnded /\ input # <<>> /\ EndsWithSoupLoop /\ RawOutcome.vpc = "returned"
     /\ Len(soup_prog) = 2 /\ soup_prog[1].op = "Input"
     /\ input[1] # <<>> /\ input[1][1] # 0) =>
        /\ SoupOutcome.vpc = "returned"
        /\ SoupOutcome.m.head = RawOutcome.m.head
        /\ SameTape(SoupOutcome.m, RawOutcome.m)

----------------------------------------------------------------------------
(* Properties of soupify *)

Compiled(target) == transpiled # <<>> /\ transpiled[1].target = target

IsRunInstr(raw_instr) == raw_instr.op \in {"Plus", "Minus", "Left", "Right"}

ClassifiedKinds == {"MultFixedLoop", "SoupFixedLoop", "SoupMovingLoop"}

IsLoopBlock(block) == block.op \in ClassifiedKinds \cup {"Loop"}

RawLoops(raw_prog) == SelectSeq(raw_prog, LAMBDA raw_instr : raw_instr.op = "BracketLoop")

SoupLoops(blocks) == SelectSeq(blocks, IsLoopBlock)

Batches(blocks) == SelectSeq(blocks, LAMBDA block : block.op = "Soup")

Smaller(a, b) == IF a < b THEN a ELSE b

\* the numbers of a finite set of integers, ascending
Ascending(S) ==
    [k \in 1..Cardinality(S) |-> CHOOSE i \in S : Cardinality({j \in S : j < i}) = k - 1]

\* a raw sequence with the block sequence soupify made of it, and the same
\* for the body of each loop that became a generic Loop, at every depth
RECURSIVE Levels(_, _)
Levels(raw_prog, blocks) ==
    LET rl == RawLoops(raw_prog)
        sl == SoupLoops(blocks)
    IN  {<<raw_prog, blocks>>} \cup
        UNION {IF sl[i].op = "Loop" THEN Levels(rl[i].body, sl[i].body) ELSE {} :
                  i \in 1..Smaller(Len(rl), Len(sl))}

AllLevels == Levels(result.instr_seq, soup_prog)

\* every block of a block sequence, at every depth
RECURSIVE AllBlocks(_)
AllBlocks(blocks) == UNION {{blocks[i]} \cup AllBlocks(blocks[i].body) : i \in DOMAIN blocks}

\* the i-th loop of a level, in the source and in the output
LoopsPaired(lv) == Len(RawLoops(lv[1])) = Len(SoupLoops(lv[2]))

\* what the classification rule makes of a loop whose processed body is body
RuleOfLoop(body) ==
    IF Len(body) = 1 /\ body[1].op = "Soup"
    THEN IF body[1].head_delta # 0
         THEN [op |-> "SoupMovingLoop", cell_deltas |-> body[1].cell_deltas,
               head_delta |-> body[1].head_delta, body |-> <<>>]
         ELSE IF <<0, -1>> \in body[1].cell_deltas
         THEN [op |-> "MultFixedLoop", cell_deltas |-> body[1].cell_deltas,
               head_delta |-> 0, body |-> <<>>]
         ELSE [op |-> "SoupFixedLoop", cell_deltas |-> body[1].cell_deltas,
               head_delta |-> 0, body |-> <<>>]
    ELSE [op |-> "Loop", cell_deltas |-> {}, head_delta |-> 0, body |-> body]

\* C16: at every depth, the i-th loop of the source is the i-th loop block
\* of the output, and that block is what the rule gives for the processed
\* body: Mult, Fixed or Moving for a body of exactly one Batch (by its
\* head_delta and its delta at offset 0), generic Loop around the processed
\* body for every other one
C16_LoopClassification ==
    Compiled("soup") =>
        \A lv \in AllLevels :
           /\ LoopsPaired(lv)
           /\ \A i \in DOMAIN RawLoops(lv[1]) :
                 SoupLoops(lv[2])[i] = RuleOfLoop(soupify(RawLoops(lv[1])[i].body))

HasKind(name) == \E i \in DOMAIN soup_prog : soup_prog[i].op = name

C16_Witness ==
    /\ Compiled("soup")
    /\ HasKind("MultFixedLoop") /\ HasKind("SoupFixedLoop")
    /\ HasKind("SoupMovingLoop") /\ HasKind("Loop")

HasBarrier(raw_body) == \E j \in DOMAIN raw_body : ~IsRunInstr(raw_body[j])

\* C17: at every depth, a loop whose source body holds an Output, an Input
\* or a loop is a generic Loop, and a Mult, Fixed or Moving block stands for
\* a loop whose source body is one or more of + - < > and nothing else
C17_BarrierLoopsAreGeneric ==
    Compiled("soup") =>
        \A lv \in AllLevels :
           /\ LoopsPaired(lv)
           /\ \A i \in DOMAIN RawLoops(lv[1]) :
                 LET raw_body == RawLoops(lv[1])[i].body
                     block    == SoupLoops(lv[2])[i]
                 IN  /\ HasBarrier(raw_body) => block.op = "Loop"
                     /\ block.op \in ClassifiedKinds =>
                           raw_body # <<>> /\ ~HasBarrier(raw_body)

C17_Witness ==
    /\ Compiled("soup")
    /\ \E lv \in AllLevels, i \in DOMAIN soup_prog :
          /\ soup_prog[i].op = "Loop"
          /\ lv[2] = soup_prog[i].body
          /\ HasBarrier(lv[1])
          /\ \E j \in DOMAIN lv[2] : lv[2][j].op \in ClassifiedKinds

\* assert!(matches!(cell_deltas.get(&0), Some(-1))), of run_soup and of the generator
AssertionHolds(block) == MapHas(block.cell_deltas, 0) /\ MapGet(block.cell_deltas, 0) = -1

\* C18: every MultFixedLoop of the output of soupify, at every depth, has
\* the entry -1 at offset 0, which is what the assertion of run_soup and the
\* one of the generator ask; the generator returns without a panic
C18_MultLoopHasMinusOne ==
    Compiled("soup") =>
        /\ \A block \in AllBlocks(soup_prog) :
              block.op = "MultFixedLoop" => AssertionHolds(block)
        /\ transpiled[1].out.tag = "Ok"

C18_Witness ==
    /\ Compiled("soup")
    /\ transpiled[1].out.tag = "Ok"
    /\ \E block \in AllBlocks(soup_prog) :
          /\ block.op = "MultFixedLoop"
          /\ Cardinality(block.cell_deltas) >= 2
    /\ \E i \in DOMAIN soup_prog : soup_prog[i].op = "Loop" /\ soup_prog[i].body # <<>>

\* the maximal runs of + - < > of a raw sequence, in their order
RunStarts(raw_prog) ==
    {a \in DOMAIN raw_prog :
        IsRunInstr(raw_prog[a]) /\ (a = 1 \/ ~IsRunInstr(raw_prog[a - 1]))}

RunEnd(raw_prog, a) ==
    CHOOSE b \in a..Len(raw_prog) :
        /\ \A j \in a..b : IsRunInstr(raw_prog[j])
        /\ b = Len(raw_prog) \/ ~IsRunInstr(raw_prog[b + 1])

Runs(raw_prog) ==
    LET starts == Ascending(RunStarts(raw_prog))
    IN  [k \in DOMAIN starts |-> SubSeq(raw_prog, starts[k], RunEnd(raw_prog, starts[k]))]

CountOf(run, n, name) == Cardinality({j \in 1..n : run[j].op = name})

\* where the head is, from the start of the run, when run[i] is executed
OffsetAt(run, i) == CountOf(run, i - 1, "Right") - CountOf(run, i - 1, "Left")

RunHeadDelta(run) == CountOf(run, Len(run), "Right") - CountOf(run, Len(run), "Left")

IssuedAt(run, o, name) ==
    Cardinality({j \in DOMAIN run : run[j].op = name /\ OffsetAt(run, j) = o})

\* one entry for each offset at which a Plus or a Minus was issued
RunDeltas(run) ==
    {<<OffsetAt(run, j), IssuedAt(run, OffsetAt(run, j), "Plus")
                            - IssuedAt(run, OffsetAt(run, j), "Minus")>> :
        j \in {i \in DOMAIN run : run[i].op \in {"Plus", "Minus"}}}

\* C19: at every depth, the k-th maximal run of + - < > gives the k-th
\* Batch; its head_delta is the number of Right minus the number of Left,
\* and its cell_deltas hold, for each offset at which a Plus or a Minus was
\* issued, the number of Plus minus the number of Minus issued there; a
\* Mult, Fixed or Moving block carries these of the run that is its body
C19_BatchSumsItsRun ==
    Compiled("soup") =>
        \A lv \in AllLevels :
           /\ Len(Batches(lv[2])) = Len(Runs(lv[1]))
           /\ \A k \in DOMAIN Runs(lv[1]) :
                 /\ Batches(lv[2])[k].head_delta = RunHeadDelta(Runs(lv[1])[k])
                 /\ Batches(lv[2])[k].cell_deltas = RunDeltas(Runs(lv[1])[k])
           /\ LoopsPaired(lv)
           /\ \A i \in DOMAIN RawLoops(lv[1]) :
                 SoupLoops(lv[2])[i].op \in ClassifiedKinds =>
                    /\ SoupLoops(lv[2])[i].head_delta = RunHeadDelta(RawLoops(lv[1])[i].body)
                    /\ SoupLoops(lv[2])[i].cell_deltas = RunDeltas(RawLoops(lv[1])[i].body)

C19_Witness ==
    /\ Compiled("soup")
    /\ \E i \in DOMAIN soup_prog :
          /\ soup_prog[i].op = "Soup"
          /\ soup_prog[i].head_delta < 0
          /\ \E e \in soup_prog[i].cell_deltas : e[1] = 0 /\ e[2] = 2
          /\ \E e \in soup_prog[i].cell_deltas : e[1] = 1 /\ e[2] = -1

\* a raw sequence with each maximal run of + - < > taken as one "Soup"
RawShape(raw_prog) ==
    LET firsts == {i \in DOMAIN raw_prog :
                      ~(IsRunInstr(raw_prog[i]) /\ i > 1 /\ IsRunInstr(raw_prog[i - 1]))}
        order  == Ascending(firsts)
    IN  [k \in DOMAIN order |->
            CASE IsRunInstr(raw_prog[order[k]])       -> "Soup"
              [] raw_prog[order[k]].op = "Dot"        -> "Output"
              [] raw_prog[order[k]].op = "Comma"      -> "Input"
              [] raw_prog[order[k]].op = "BracketLoop" -> "loop"]

SoupShape(blocks) ==
    [i \in DOMAIN blocks |-> IF IsLoopBlock(blocks[i]) THEN "loop" ELSE blocks[i].op]

\* C20: at every depth, the output is the source with each maximal run of
\* + - < > replaced by one Batch, each Output and Input kept alone at its
\* place and each loop replaced by one loop block; no two Batches are
\* adjacent
C20_OneBatchPerRun ==
    Compiled("soup") =>
        \A lv \in AllLevels :
           /\ SoupShape(lv[2]) = RawShape(lv[1])
           /\ \A i \in 1..(Len(lv[2]) - 1) :
                 ~(lv[2][i].op = "Soup" /\ lv[2][i + 1].op = "Soup")

C20_Witness ==
    /\ Compiled("soup")
    /\ SoupShape(soup_prog) = <<"Soup", "Output", "Soup", "Input", "loop", "Soup">>
    /\ Len(result.instr_seq) > Len(soup_prog)

----------------------------------------------------------------------------
(* Properties of the code generator *)

\* the lines of the generated code that stand for soup_prog[k]
LinesOf(k) ==
    LET before == emit_soup_instr_seq(emit_header(TranspiledCNew), SubSeq(soup_prog, 1, k - 1))
        upto   == emit_soup_instr_seq(emit_header(TranspiledCNew), SubSeq(soup_prog, 1, k))
    IN  SubSeq(transpiled[1].out.code, Len(before.code) + 1, Len(upto.code))

HText(offset) ==
    IF offset = 0 THEN [fmt |-> "h", args |-> <<>>]
                  ELSE [fmt |-> "h + {}", args |-> <<offset>>]

\* one statement for each of the entries, by ascending offset
StatementsOf(entries, fmt) ==
    LET offsets == Ascending(MapKeys(entries))
    IN  [j \in DOMAIN offsets |->
            [tabs |-> 1,
             content |-> [fmt |-> fmt,
                          args |-> <<HText(offsets[j]), MapGet(entries, offsets[j])>>]]]

HeadStatement(head_delta) ==
    IF head_delta # 0
    THEN <<[tabs |-> 1, content |-> [fmt |-> "h += {};", args |-> <<head_delta>>]]>>
    ELSE <<>>

NonzeroOffset(entries) == {e \in entries : e[1] # 0}

\* C13 as it was stated: a Batch gives one
\* `m[h + offset] += delta;` for each entry whose offset is not 0, by
\* ascending offset, then `h += head_delta;` if head_delta is not 0
C13_Original ==
    Compiled("soup") /\ transpiled[1].out.tag = "Ok" =>
        \A k \in DOMAIN soup_prog :
           soup_prog[k].op = "Soup" =>
              LinesOf(k) = StatementsOf(NonzeroOffset(soup_prog[k].cell_deltas), "m[{}] += {};")
                              \o HeadStatement(soup_prog[k].head_delta)

\* C13: a Batch gives one `m[..] += delta;` for each entry of cell_deltas,
\* the entry at offset 0 (written `m[h] += delta;`) and the entries of delta
\* 0 included, by ascending offset, then one `h += head_delta;` if and only
\* if head_delta is not 0
C13_BatchStatements ==
    Compiled("soup") /\ transpiled[1].out.tag = "Ok" =>
        \A k \in DOMAIN soup_prog :
           soup_prog[k].op = "Soup" =>
              LinesOf(k) = StatementsOf(soup_prog[k].cell_deltas, "m[{}] += {};")
                              \o HeadStatement(soup_prog[k].head_delta)

C13_Witness ==
    /\ Compiled("soup")
    /\ transpiled[1].out.tag = "Ok"
    /\ \E k \in DOMAIN soup_prog :
          /\ soup_prog[k].op = "Soup"
          /\ soup_prog[k].head_delta # 0
          /\ {-1, 0, 1} \subseteq MapKeys(soup_prog[k].cell_deltas)
          /\ Len(LinesOf(k)) = 4

\* C14: a MultFixedLoop gives no `while`: one `m[h + offset] += m[h] * delta;`
\* for each entry whose offset is not 0, by ascending offset, then
\* `m[h] = 0;` as the last statement
C14_MultLoopStatements ==
    Compiled("soup") /\ transpiled[1].out.tag = "Ok" =>
        \A k \in DOMAIN soup_prog :
           soup_prog[k].op = "MultFixedLoop" =>
              LinesOf(k) = StatementsOf(NonzeroOffset(soup_prog[k].cell_deltas),
                                        "m[{}] += m[h] * {};")
                              \o <<[tabs |-> 1, content |-> [fmt |-> "m[h] = 0;", args |-> <<>>]]>>

C14_Witness ==
    /\ Compiled("soup")
    /\ transpiled[1].out.tag = "Ok"
    /\ \E k \in DOMAIN soup_prog :
          /\ soup_prog[k].op = "MultFixedLoop"
          /\ {-1, 0, 1} \subseteq MapKeys(soup_prog[k].cell_deltas)
          /\ Len(LinesOf(k)) = 3

----------------------------------------------------------------------------
(* Properties of the work stack of run_raw and run_soup *)

\* the instruction sequence the running interpreter was called with
RunProg == IF engine = "raw" THEN result.instr_seq ELSE soup_prog

IsGenericLoop(instr) == instr.op \in {"BracketLoop", "Loop"}

\* c, the work stack read from its top, is what is left to execute of seq:
\* the rest of seq from some instruction on, or, for a generic loop of seq,
\* what is left of its body, then the loop itself, then what follows it
RECURSIVE IsRestOf(_, _)
IsRestOf(c, seq) ==
    \/ \E k \in 1..(Len(seq) + 1) : c = SubSeq(seq, k, Len(seq))
    \/ \E k \in 1..Len(seq) :
          LET after == Len(seq) - k + 1
          IN  /\ IsGenericLoop(seq[k])
              /\ Len(c) > after
              /\ SubSeq(c, Len(c) - after + 1, Len(c)) = SubSeq(seq, k, Len(seq))
              /\ IsRestOf(SubSeq(c, 1, Len(c) - after), seq[k].body)

\* one turn of the while loop: the top is popped, nothing beneath it changes
\* and a generic loop tests the head cell, leaving the memory as it is
TurnOfLoop ==
    (vpc = "run" /\ instr_stack # <<>>) =>
        LET instr == Last(instr_stack)
        IN  IF IsGenericLoop(instr)
            THEN /\ m' = m
                 /\ instr_stack' = IF get(m, m.head) = 0
                                   THEN ButLast(instr_stack)
                                   ELSE ButLast(instr_stack) \o <<instr>> \o Reverse(instr.body)
            ELSE \E kept \in {<<>>, <<instr>>} :
                    instr_stack' = ButLast(instr_stack) \o kept

\* C21: in run_raw and in run_soup the work stack, read from its top, is at
\* every turn what is left of the program in program order; a generic loop
\* that is popped with the head cell at zero is dropped with none of its body
\* pushed, and with the head cell not zero it is pushed back beneath its
\* whole body, so that the body runs in order and the same loop is popped
\* and tested again before anything that follows it
C21_WorkStackOrder ==
    /\ [](vpc = "run" => IsRestOf(Reverse(instr_stack), RunProg))
    /\ [][TurnOfLoop]_vars

\* the naive engine has run, and the soup engine is inside the body of a
\* generic loop of two nodes or more, the loop waiting beneath what is left
C21_Witness ==
    /\ vpc = "run"
    /\ engine = "soup"
    /\ first_run # <<>>
    /\ \E i \in 1..(Len(instr_stack) - 1) :
          /\ instr_stack[i].op = "Loop"
          /\ Len(instr_stack[i].body) >= 2
          /\ Len(instr_stack) - i < Len(instr_stack[i].body)
          /\ get(m, m.head) # 0

\* C22: when run_raw returns on a program and an input buffer, run_soup on
\* the soupified program and the same buffer returns as well: it does not
\* end in a panic
C22_SoupReturnsWhenRawDoes ==
    (BothEnded /\ input # <<>> /\ RawOutcome.vpc = "returned") =>
        SoupOutcome.vpc = "returned"

----------------------------------------------------------------------------
(* Properties of the tree parse_instr_seq returns *)

CharOfRaw(instr) ==
    CASE instr.op = "Plus"  -> "+"
      [] instr.op = "Minus" -> "-"
      [] instr.op = "Left"  -> "<"
      [] instr.op = "Right" -> ">"
      [] instr.op = "Dot"   -> "."
      [] instr.op = "Comma" -> ","

\* the tree written back as text: a primitive as its character, a loop as
\* `[`, its body, `]`
RECURSIVE Unparse(_)
Unparse(instr_seq) ==
    IF instr_seq = <<>> THEN <<>>
    ELSE LET instr == Head(instr_seq)
         IN  (IF instr.op = "BracketLoop"
              THEN <<"[">> \o Unparse(instr.body) \o <<"]">>
              ELSE <<CharOfRaw(instr)>>) \o Unparse(Tail(instr_seq))

\* the bodies of the loop nodes of the tree, each loop before the loops of
\* its body and those before the loops that follow it
RECURSIVE LoopBodies(_)
LoopBodies(instr_seq) ==
    IF instr_seq = <<>> THEN <<>>
    ELSE LET instr == Head(instr_seq)
         IN  (IF instr.op = "BracketLoop"
              THEN <<instr.body>> \o LoopBodies(instr.body)
              ELSE <<>>) \o LoopBodies(Tail(instr_seq))

CountIn(s, a, b, c) == Cardinality({k \in a..b : s[k] = c})

Openings(s) == {i \in 1..Len(s) : s[i] = "["}

\* the `]` that closes the `[` at i: the first place after i up to which
\* as many `]` as `[` were read from i on
ClosingOf(s, i) ==
    CHOOSE j \in (i + 1)..Len(s) :
        /\ CountIn(s, i, j, "[") = CountIn(s, i, j, "]")
        /\ \A k \in i..(j - 1) : CountIn(s, i, k, "[") > CountIn(s, i, k, "]")

\* the n-th `[` of the text
NthOpening(s, n) ==
    CHOOSE i \in Openings(s) : Cardinality({j \in Openings(s) : j < i}) = n - 1

\* the text between each `[` and its `]`, in the order of the `[`
PairTexts(s) ==
    [n \in 1..Cardinality(Openings(s)) |->
        LET i == NthOpening(s, n)
        IN  SubSeq(s, i + 1, ClosingOf(s, i) - 1)]

\* C23: when parse_instr_seq returns Ok(tree), the tree written back as text
\* is the source with every character other than + - < > . , [ ] deleted,
\* and the tree has one loop node per pair of matching brackets, whose body
\* is the tree of the text between the two brackets
C23_TreeWritesBackSource ==
    (Returned /\ result.tag = "Ok") =>
        LET stripped == StripComments(src_code)
            bodies   == LoopBodies(result.instr_seq)
            texts    == PairTexts(stripped)
        IN  /\ Unparse(result.instr_seq) = stripped
            /\ Len(bodies) = Len(texts)
            /\ \A n \in 1..Len(bodies) : Unparse(bodies[n]) = texts[n]

\* a text with a comment character and a loop that has a body was parsed
C23_Witness ==
    /\ Returned
    /\ result.tag = "Ok"
    /\ \E k \in 1..Len(src_code) : src_code[k] \in CommentChars
    /\ \E k \in 1..Len(result.instr_seq) :
          /\ result.instr_seq[k].op = "BracketLoop"
          /\ result.instr_seq[k].body # <<>>

----------------------------------------------------------------------------
(* The order in which a HashMap hands out the entries of cell_deltas *)

HasCellDeltas(instr) ==
    instr.op \in {"Soup", "MultFixedLoop", "SoupFixedLoop", "SoupMovingLoop"}

\* what the arm of run_soup for instr makes of the memory mem when
\* cell_deltas.iter() gives the entries in the order `order`: whether the
\* arm gets to its end, and the memory it leaves then
ArmWithOrder(instr, mem, order) ==
    LET n     == get(mem, mem.head)
        mult  == IF instr.op = "MultFixedLoop" THEN <<n>> ELSE <<>>
        x     == ApplyCellDeltas([mem |-> mem, ok |-> TRUE], order, 1, mult)
        moved == [x.mem EXCEPT !.head = @ + instr.head_delta]
    IN  CASE instr.op = "MultFixedLoop" ->
               IF /\ MapHas(instr.cell_deltas, 0)
                  /\ MapGet(instr.cell_deltas, 0) = -1
                  /\ x.ok
                  /\ ~SetPanics(mem.head)
               THEN [ok |-> TRUE, mem |-> set(x.mem, mem.head, 0)]
               ELSE [ok |-> FALSE, mem |-> mem]
          [] instr.op = "SoupFixedLoop" ->
               IF x.ok THEN [ok |-> TRUE, mem |-> x.mem] ELSE [ok |-> FALSE, mem |-> mem]
          [] instr.op \in {"Soup", "SoupMovingLoop"} ->
               IF x.ok THEN [ok |-> TRUE, mem |-> moved] ELSE [ok |-> FALSE, mem |-> mem]

\* the entries of the map by ascending offset: one of the orders a HashMap
\* may give
OffsetOrder(map) ==
    [k \in 1..Cardinality(map) |->
        CHOOSE e \in map : Cardinality({f \in map : f[1] < e[1]}) = k - 1]

\* a turn of run_soup on a node with cell_deltas, whatever order the
\* iteration took, ends as the arm ends with the entries in offset order
AnyOrderGivesTheTurn ==
    (/\ engine = "soup" /\ vpc = "run" /\ instr_stack # <<>>
     /\ HasCellDeltas(Last(instr_stack))) =>
        LET instr == Last(instr_stack)
            r     == ArmWithOrder(instr, m, OffsetOrder(instr.cell_deltas))
        IN  IF vpc' = "panicked"
            THEN ~r.ok
            ELSE /\ r.ok
                 /\ m' = r.mem
                 /\ instr_stack' =
                       IF /\ instr.op \in {"SoupFixedLoop", "SoupMovingLoop"}
                          /\ get(r.mem, r.mem.head) # 0
                       THEN instr_stack
                       ELSE ButLast(instr_stack)

\* C24: what run_soup makes of a Soup, SoupFixedLoop, SoupMovingLoop or
\* MultFixedLoop node does not depend on the order in which the entries of
\* cell_deltas are iterated: a turn taken with any order of the entries
\* ends the way the turn with the entries in offset order ends (panic or
\* not) and, without a panic, leaves the same tape, the same head and the
\* same work stack; the MultFixedLoop multiplies by the head cell as it was
\* when the node was popped
C24_OrderIndependent == [][AnyOrderGivesTheTurn]_vars

\* run_soup is past a MultFixedLoop of two entries or more that it met with
\* a head cell that was not zero: the head cell is 0 now and another cell
\* is not
C24_Witness ==
    /\ engine = "soup"
    /\ vpc = "run"
    /\ \E k \in 1..Len(soup_prog) :
          /\ soup_prog[k].op = "MultFixedLoop"
          /\ Cardinality(soup_prog[k].cell_deltas) >= 2
          /\ Len(instr_stack) = Len(soup_prog) - k
    /\ get(m, m.head) = 0
    /\ \E index \in 0..MaxCell : get(m, index) # 0

----------------------------------------------------------------------------
(* The scope stack of parse_instr_seq *)

IsPrefix(a, b) == Len(a) <= Len(b) /\ SubSeq(b, 1, Len(a)) = a

\* parse_instr_seq has not yet taken the result out of the scope stack
InParser == ppc \in {"scan", "drain"} \/ (ppc = "done" /\ result.tag = "Err")

\* the root scope is at the bottom, the scopes above it are those of a `[`
RootAtBottom ==
    /\ Len(scope_stack) >= 1
    /\ scope_stack[1].opening_bracket_pos = <<>>
    /\ \A k \in 2..Len(scope_stack) :
          /\ scope_stack[k].opening_bracket_pos # <<>>
          /\ scope_stack[k].opening_bracket_pos[1] \in 0..(ByteLen(src_code) - 1)

\* a step of the for loop or of the end-of-input loop leaves the root scope
\* where it is, with the instructions it held
RootKept ==
    (ppc \in {"scan", "drain"} /\ ppc' \in {"scan", "drain"}) =>
        IsPrefix(scope_stack[1].instr_seq, scope_stack'[1].instr_seq)

\* C25: all through parse_instr_seq the scope stack holds a scope or more,
\* the bottom one is the root scope (no opening offset) and no bracket and
\* no turn of the end-of-input loop removes it, every scope above it holds
\* the offset of its `[`, and so no unwrap and no assert! of the parser
\* fails: the parser never panics, and the pop of the last statement finds
\* the root scope
C25_RootScopeStays ==
    /\ [](InParser => RootAtBottom)
    /\ [](ppc # "panicked" /\ result.tag # "Panicked")
    /\ [](ppc = "done" /\ result.tag = "Ok" => scope_stack = <<>>)
    /\ [][RootKept]_vars

\* a `]` was read with only the root scope open, and the end-of-input loop
\* has removed a scope and has another one to remove
C25_Witness ==
    /\ ppc = "drain"
    /\ Len(scope_stack) >= 2
    /\ \E k \in 1..Len(errors) : errors[k].kind = "UnmatchedClosingBracket"
    /\ \E k \in 1..Len(errors) : errors[k].kind = "UnmatchedOpeningBracket"

====
